---- MODULE Spec2Model ----
(***************************************************************************)
(* trio-rng: the cascade engine of src/trio_rng/cli.py.                    *)
(*                                                                         *)
(* One run of main() is a state machine: the arguments are fixed in Init,  *)
(* generate() validates the cascade, then every stage of the cascade runs  *)
(* in order (openssl_stage, qiskit_stage, cirq_stage), and main() prints   *)
(* the result or the error.  Bit strings are sequences of 0/1, byte blocks *)
(* are sequences of 0..255.  Python's None is the empty tuple and a value  *)
(* x that may be None is <<x>>.                                            *)
(*                                                                         *)
(* External collaborators:                                                 *)
(*   - hashlib.sha256 is a fixed deterministic function from byte blocks   *)
(*     to DigestSize bytes (Sha256 below, a stand-in with the same shape); *)
(*   - os.urandom returns any byte block of the requested length;          *)
(*   - the Aer simulator run WITH seed_simulator is a fixed deterministic  *)
(*     function of its arguments (SeededCounts), run without it it returns *)
(*     any non-empty counts map; cirq.Simulator().run returns any          *)
(*     non-empty sequence of measurement rows.  Either call may raise.     *)
(***************************************************************************)
EXTENDS Integers, Sequences, FiniteSets, TLC

-----------------------------------------------------------------------------
(* Bounds of the model *)

\* largest bit count of the runs that try every cascade
MaxBits == 3
\* the bit counts of those runs go down to -MaxNegBits
MaxNegBits == 8
\* largest bit count of the seeded runs of openssl alone
MaxSourceBits == 520
\* largest bit count of the seeded runs of openssl and one mixer
MaxWideBits == 40
\* seeds of the runs that try every cascade are 0..MaxSeed
MaxSeed == 0
\* seeds of the seeded runs with more than MaxBits bits: the multiples of
\* SeedStride up to MaxSourceSeed * SeedStride
MaxSourceSeed == 2
SeedStride == 7
\* longest cascade
MaxCascade == 2
\* most entries of a counts map / most measurement rows a sampler returns
MaxOutcomes == 2
\* frequencies of a counts map are 1..MaxFreq
MaxFreq == 2
\* a sampler's outcomes of width q are the q-digit numerals of 0..PoolSize-1
PoolSize == 2

(* Constants of the program *)

\* hashlib.sha256(...).digest() is 32 bytes
DigestSize == 32
\* seed_value % 10 in qiskit_stage
QiskitModulus == 10
\* seed_value % 15 in cirq_stage
CirqModulus == 15
\* max(1024, ...) shots / repetitions
MinShots == 1024
\* (bits // num_qubits + 1) * 100
ShotsPerChunk == 100

-----------------------------------------------------------------------------
(* Python values *)

None == <<>>
Some(x) == <<x>>

Min(a, b) == IF a <= b THEN a ELSE b
Max(a, b) == IF a >= b THEN a ELSE b

\* s[:n], for n of either sign
PySlice(s, n) ==
    IF n >= 0 THEN SubSeq(s, 1, Min(n, Len(s)))
    ELSE SubSeq(s, 1, Max(0, Len(s) + n))

\* '0' * n  (the empty string when n <= 0)
Zeros(n) == [i \in 1..Max(n, 0) |-> 0]

\* format(byte, '08b'): eight digits, most significant first
ByteBits(byte) == [i \in 1..8 |-> (byte \div (2 ^ (8 - i))) % 2]

\* ''.join(format(byte, '08b') for byte in random_bytes)
BytesToBits(bytes) ==
    [k \in 1..(8 * Len(bytes)) |-> ByteBits(bytes[((k - 1) \div 8) + 1])[((k - 1) % 8) + 1]]

RECURSIVE DecimalDigits(_)
DecimalDigits(n) ==
    IF n < 10 THEN <<48 + n>>
    ELSE DecimalDigits(n \div 10) \o <<48 + (n % 10)>>

\* str(seed).encode()
DecimalBytes(n) == IF n < 0 THEN <<45>> \o DecimalDigits(-n) ELSE DecimalDigits(n)

\* base^k mod m, by repeated squaring
RECURSIVE PowMod(_, _, _)
PowMod(base, k, m) ==
    IF k = 0 THEN 1 % m
    ELSE LET h == PowMod(base, k \div 2, m)
         IN  IF k % 2 = 0 THEN (h * h) % m ELSE (((h * h) % m) * base) % m

\* the numeral s[lo..hi] in the given base, most significant digit first, mod m
RECURSIVE PolyMod(_, _, _, _, _)
PolyMod(s, lo, hi, base, m) ==
    IF lo > hi THEN 0
    ELSE IF lo = hi THEN s[lo] % m
    ELSE LET mid == (lo + hi) \div 2
         IN  (PolyMod(s, lo, mid, base, m) * PowMod(base, hi - mid, m)
              + PolyMod(s, mid + 1, hi, base, m)) % m

-----------------------------------------------------------------------------
(* openssl_stage *)

\* hashlib.sha256(block).digest(): a deterministic function of the whole block
\* (every byte and the length of the block enter every byte of the digest)
Sha256(block) ==
    LET a == (PolyMod([i \in 1..Len(block) |-> block[i] + 1], 1, Len(block), 31, 32749)
              + 7 * Len(block) + 1) % 32749
    IN  [i \in 1..DigestSize |-> ((a % 251) * (2 * i + 1) + (a \div 128) * i + i * i) % 256]

\* num_bytes = (self.bits + 7) // 8
NumBytes(b) == (b + 7) \div 8

\* Extend with the loop hashing only the digest it appended last
RECURSIVE ExtendLastDigest(_, _)
ExtendLastDigest(block, n) ==
    IF Len(block) < n
    THEN ExtendLastDigest(block \o Sha256(SubSeq(block, Len(block) - DigestSize + 1, Len(block))), n)
    ELSE block

\* while len(random_bytes) < num_bytes: random_bytes += sha256(random_bytes).digest()
RECURSIVE Extend(_, _)
Extend(block, n) ==
    IF Len(block) < n THEN Extend(block \o Sha256(block), n) ELSE block

\* the seeded branch of openssl_stage, up to random_bytes[:num_bytes]
SeededBytes(sd, n) == PySlice(Extend(Sha256(DecimalBytes(sd)), n), n)

\* the binary string of the byte block, trimmed to the bit count
OpensslBits(bytes, b) == PySlice(BytesToBits(bytes), b)

-----------------------------------------------------------------------------
(* qiskit_stage and cirq_stage *)

\* (int(input_bits, 2) if input_bits else 0) % m, without building the integer
SeedValueMod(input, m) == IF input = <<>> THEN 0 ELSE PolyMod(input, 1, Len(input), 2, m)

\* num_qubits = max(1, min(self.bits, (seed_value % m) + 1))
NumQubits(input, b, m) == Max(1, Min(b, SeedValueMod(input, m) + 1))

\* the qubits that get the extra gate: enumerate(input_bits[:num_qubits]), bit == '1'
MarkedQubits(input, q) == {i \in 1..Len(PySlice(input, q)) : input[i] = 1}

\* shots = max(1024, (self.bits // num_qubits + 1) * 100)
Shots(b, q) == Max(MinShots, ((b \div q) + 1) * ShotsPerChunk)

\* the q-digit binary numeral of j
Numeral(j, q) == [i \in 1..q |-> (j \div (2 ^ (q - i))) % 2]

\* the outcome strings of width q a sampler may return
Outcomes(q) == {Numeral(j, q) : j \in 0..(Min(PoolSize, 2 ^ q) - 1)}

\* result.get_counts(qc): a non-empty map outcome -> frequency, in the map's order
CountsResults(q) ==
    {c \in UNION {[1..n -> [outcome : Outcomes(q), count : 1..MaxFreq]] : n \in 1..MaxOutcomes} :
        \A i, j \in 1..Len(c) : i # j => c[i].outcome # c[j].outcome}

\* result.measurements['result']: the rows in sampling order
MeasurementResults(q) == UNION {[1..n -> Outcomes(q)] : n \in 1..MaxOutcomes}

\* simulator.run(qc, shots=shots, seed_simulator=self.seed): the same counts for
\* the same circuit, shots and seed
SeededCounts(q, marks, shots, sd) ==
    LET k1 == (5 * sd + q + 3 * Cardinality(marks)) % (2 ^ q)
        k2 == (k1 + 1) % (2 ^ q)
        n1 == (shots \div 2) + ((sd + q) % 7)
    IN  <<[outcome |-> Numeral(k1, q), count |-> n1],
          [outcome |-> Numeral(k2, q), count |-> shots - n1]>>

\* InsertByCount with equal counts in reversed order (an ascending sort, reversed)
RECURSIVE InsertByCountReversed(_, _)
InsertByCountReversed(sorted, e) ==
    IF sorted = <<>> THEN <<e>>
    ELSE IF Head(sorted).count > e.count
         THEN <<Head(sorted)>> \o InsertByCountReversed(Tail(sorted), e)
         ELSE <<e>> \o sorted

\* where sorted(..., reverse=True) puts e: behind every entry whose count is not smaller
RECURSIVE InsertByCount(_, _)
InsertByCount(sorted, e) ==
    IF sorted = <<>> THEN <<e>>
    ELSE IF Head(sorted).count >= e.count
         THEN <<Head(sorted)>> \o InsertByCount(Tail(sorted), e)
         ELSE <<e>> \o sorted

\* sorted(counts.items(), key=lambda x: x[1], reverse=True): a stable sort
RECURSIVE SortedResults(_)
SortedResults(counts) ==
    IF counts = <<>> THEN <<>>
    ELSE InsertByCount(SortedResults(SubSeq(counts, 1, Len(counts) - 1)), counts[Len(counts)])

\* for m in items: bitstring += m; if len(bitstring) >= self.bits: break
RECURSIVE ConcatUntil(_, _, _, _)
ConcatUntil(items, i, acc, b) ==
    IF i > Len(items) THEN acc
    ELSE LET next == acc \o items[i]
         IN  IF Len(next) >= b THEN next ELSE ConcatUntil(items, i + 1, next, b)

\* qiskit_stage from the sort to the first bitstring[:self.bits]
QiskitExtract(counts, b) ==
    LET ranked == SortedResults(counts)
    IN  PySlice(ConcatUntil([i \in 1..Len(ranked) |-> ranked[i].outcome], 1, <<>>, b), b)

\* cirq_stage from the measurement rows to the first bitstring[:self.bits]
CirqExtract(measurements, b) == PySlice(ConcatUntil(measurements, 1, <<>>, b), b)

\* Doubled with the string left as it is
DoubledNot(s) == s

\* bitstring += bitstring
Doubled(s) == s \o s

\* FinalTrim without the cut
FinalTrimNot(s, b) == s

\* the last bitstring[:self.bits] of a mixer stage
FinalTrim(s, b) == PySlice(s, b)

\* StageModulus with qiskit_stage's modulus in both stages
StageModulusSame(stage) == QiskitModulus

\* the modulus of seed_value % m in the stage
StageModulus(stage) == IF stage = "qiskit" THEN QiskitModulus ELSE CirqModulus

-----------------------------------------------------------------------------
(* The state of one invocation of main() *)

VARIABLES
    bits,         \* args.bits / self.bits
    seed,         \* args.seed / self.seed: None or <<n>>
    verbose,      \* args.verbose / self.verbose
    cascade,      \* the stage names handed to generate()
    pc,           \* "main", "validate", "exec", "pad", "done", "failed"
    idx,          \* the position in the cascade of the stage that runs next
    bitstring,    \* generate()'s local bitstring: None or <<digits>>
    buf,          \* a mixer stage's local bitstring, in its padding loop
    iters,        \* passes of the padding loop in the stage that is running
    sample,       \* the counts map qiskit_stage is extracting from, or None
    stdout,       \* the kinds of the lines printed on standard output
    stderr,       \* the messages printed on standard error
    exitCode,     \* None while the process runs, then <<0>> or <<1>>
    sourceCalls,  \* calls of openssl_stage so far
    samplerCalls, \* calls of a simulator's run() so far
    lastCall,     \* the last call of a simulator's run(), or None
    run,          \* 1, or 2 in a second invocation with the same arguments
    firstResult   \* what the first invocation printed as Binary, or None

vars == <<bits, seed, verbose, cascade, pc, idx, bitstring, buf, iters, sample,
          stdout, stderr, exitCode, sourceCalls, samplerCalls, lastCall, run, firstResult>>

args == <<bits, seed, verbose, cascade>>

\* valid_stages in generate()
ValidStages == {"openssl", "qiskit", "cirq"}

\* the tokens of a --cascade argument: the stage names and two others
Tokens == ValidStages \cup {"bogus", ""}

Seeds == {None} \cup {Some(n) : n \in 0..MaxSeed}

Cascades == UNION {[1..n -> Tokens] : n \in 1..MaxCascade}

\* the cascades of the seeded runs with more than MaxBits bits
SourceCascades(b) ==
    IF b <= MaxWideBits
    THEN {<<"openssl">>, <<"openssl", "qiskit">>, <<"openssl", "cirq">>}
    ELSE {<<"openssl">>}

\* main() up to the construction of TrioRNG: any arguments
Init ==
    /\ \/ /\ bits \in (0 - MaxNegBits)..MaxBits
          /\ seed \in Seeds
          /\ verbose \in BOOLEAN
          /\ cascade \in Cascades
       \/ /\ bits \in (MaxBits + 1)..MaxSourceBits
          /\ seed \in {Some(n * SeedStride) : n \in 0..MaxSourceSeed}
          /\ verbose = FALSE
          /\ cascade \in SourceCascades(bits)
    /\ pc = "main"
    /\ idx = 0
    /\ bitstring = None
    /\ buf = <<>>
    /\ iters = 0
    /\ sample = None
    /\ stdout = <<>>
    /\ stderr = <<>>
    /\ exitCode = None
    /\ sourceCalls = 0
    /\ samplerCalls = 0
    /\ lastCall = None
    /\ run = 1
    /\ firstResult = None

\* self.log(...): the lines reach standard output only when verbose
Logged(out, lines) == IF verbose THEN out \o lines ELSE out

\* main()'s except clause: print(f"Error: {e}", file=sys.stderr); sys.exit(1)
MainExcept(error, value) ==
    /\ stderr' = Append(stderr, [error |-> error, value |-> value])
    /\ exitCode' = Some(1)
    /\ pc' = "failed"

\* main() from parse_args to the call of generate(): the verbose banner
Start ==
    /\ pc = "main"
    /\ stdout' = Logged(stdout, <<"banner">>)
    /\ pc' = "validate"
    /\ UNCHANGED <<args, idx, bitstring, buf, iters, sample, stderr, exitCode,
                   sourceCalls, samplerCalls, lastCall, run, firstResult>>

\* FirstInvalid looking at the first name only
FirstInvalidHead(c) == IF c[1] \notin ValidStages THEN 1 ELSE 0

\* the first name of the cascade that is no valid stage, or 0
FirstInvalid(c) ==
    IF \A i \in 1..Len(c) : c[i] \in ValidStages THEN 0
    ELSE CHOOSE i \in 1..Len(c) :
            /\ c[i] \notin ValidStages
            /\ \A j \in 1..(i - 1) : c[j] \in ValidStages

\* generate(): the validation loop
Validate ==
    /\ pc = "validate"
    /\ IF FirstInvalid(cascade) # 0
       THEN /\ MainExcept("InvalidStage", Some(cascade[FirstInvalid(cascade)]))
            /\ UNCHANGED idx
       ELSE /\ pc' = "exec"
            /\ idx' = 1
            /\ UNCHANGED <<stderr, exitCode>>
    /\ UNCHANGED <<args, bitstring, buf, iters, sample, stdout,
                   sourceCalls, samplerCalls, lastCall, run, firstResult>>

\* openssl_stage from the conversion of random_bytes to its return
OpensslReturn(bytes) ==
    LET out == OpensslBits(bytes, bits)
        pre == Logged(stdout, IF seed # None THEN <<"log", "log">> ELSE <<"log">>)
    IN  IF out = <<>>
        THEN \* int('', 2) in the argument of the last log() raises ValueError
             /\ stdout' = Logged(pre, <<"stage_output">>)
             /\ MainExcept("ValueError", None)
             /\ UNCHANGED <<bitstring, idx>>
        ELSE /\ stdout' = Logged(pre, <<"stage_output", "log">>)
             /\ bitstring' = Some(out)
             /\ idx' = idx + 1
             /\ UNCHANGED <<pc, stderr, exitCode>>

\* generate(): stage == 'openssl', with a seed
OpensslSeeded ==
    /\ pc = "exec" /\ idx <= Len(cascade) /\ cascade[idx] = "openssl"
    /\ seed # None
    /\ sourceCalls' = sourceCalls + 1
    /\ OpensslReturn(SeededBytes(seed[1], NumBytes(bits)))
    /\ UNCHANGED <<args, buf, iters, sample, samplerCalls, lastCall, run, firstResult>>

\* generate(): stage == 'openssl', without a seed
OpensslUrandom ==
    /\ pc = "exec" /\ idx <= Len(cascade) /\ cascade[idx] = "openssl"
    /\ seed = None
    /\ NumBytes(bits) >= 0
    /\ sourceCalls' = sourceCalls + 1
    /\ \E bytes \in [1..NumBytes(bits) -> 0..255] : OpensslReturn(bytes)
    /\ UNCHANGED <<args, buf, iters, sample, samplerCalls, lastCall, run, firstResult>>

\* os.urandom(n) with n < 0 raises ValueError
OpensslUrandomFails ==
    /\ pc = "exec" /\ idx <= Len(cascade) /\ cascade[idx] = "openssl"
    /\ seed = None
    /\ NumBytes(bits) < 0
    /\ sourceCalls' = sourceCalls + 1
    /\ stdout' = Logged(stdout, <<"log">>)
    /\ MainExcept("ValueError", None)
    /\ UNCHANGED <<args, idx, bitstring, buf, iters, sample, samplerCalls, lastCall,
                   run, firstResult>>

\* MixerInput with the zeros for every mixer
MixerInputZeros(cur) == Zeros(bits)

\* generate(): if bitstring is None: bitstring = '0' * self.bits
MixerInput(cur) == IF cur = None THEN Zeros(bits) ELSE cur[1]

\* whether the stage hands self.seed to its simulator: qiskit_stage passes
\* seed_simulator when there is a seed, both branches of cirq_stage pass none
SeedPassed(stage) ==
    IF stage = "qiskit"
    THEN (IF seed # None THEN TRUE ELSE FALSE)
    ELSE (IF seed # None THEN FALSE ELSE FALSE)

\* what a mixer stage asks of its simulator
SamplerCall(stage, input, failed) ==
    LET q == NumQubits(input, bits, StageModulus(stage))
    IN  [stage |-> stage, position |-> idx, input |-> input, qubits |-> q,
         marked |-> MarkedQubits(input, q), shots |-> Shots(bits, q),
         seeded |-> SeedPassed(stage), failed |-> failed]

\* generate() enters a mixer stage, and the stage runs up to its simulator call
MixerEnter(stage, failed) ==
    /\ pc = "exec" /\ idx <= Len(cascade) /\ cascade[idx] = stage
    /\ bitstring' = Some(MixerInput(bitstring))
    /\ samplerCalls' = samplerCalls + 1
    /\ lastCall' = Some(SamplerCall(stage, MixerInput(bitstring), failed))
    /\ stdout' = Logged(stdout, <<"log", "log">>)
    /\ UNCHANGED <<args, idx, sourceCalls, run, firstResult>>

\* MixerFails with the exception swallowed: generate() stays at the stage
MixerFailsSwallowed(stage) ==
    /\ MixerEnter(stage, TRUE)
    /\ UNCHANGED <<pc, stderr, exitCode, buf, iters, sample>>

\* the simulator call raises: the exception reaches main()
MixerFails(stage) ==
    /\ MixerEnter(stage, TRUE)
    /\ MainExcept("SamplerError", None)
    /\ UNCHANGED <<buf, iters, sample>>

\* the stage extracts its bit string and reaches the padding loop
MixerExtracted(extracted, counts) ==
    /\ buf' = extracted
    /\ iters' = 0
    /\ sample' = counts
    /\ pc' = "pad"
    /\ UNCHANGED <<stderr, exitCode>>

QiskitFails == MixerFails("qiskit")

\* qiskit_stage with a seed: simulator.run(qc, shots=shots, seed_simulator=self.seed)
QiskitSeeded ==
    /\ seed # None
    /\ MixerEnter("qiskit", FALSE)
    /\ LET call == SamplerCall("qiskit", MixerInput(bitstring), FALSE)
           counts == SeededCounts(call.qubits, call.marked, call.shots, seed[1])
       IN  MixerExtracted(QiskitExtract(counts, bits), Some(counts))

\* qiskit_stage without a seed: simulator.run(qc, shots=shots)
QiskitUnseeded ==
    /\ seed = None
    /\ MixerEnter("qiskit", FALSE)
    /\ \E counts \in CountsResults(NumQubits(MixerInput(bitstring), bits, QiskitModulus)) :
          MixerExtracted(QiskitExtract(counts, bits), Some(counts))

CirqFails == MixerFails("cirq")

\* cirq_stage: simulator.run(circuit, repetitions=repetitions), seed or no seed
CirqRuns ==
    /\ MixerEnter("cirq", FALSE)
    /\ \E measurements \in MeasurementResults(NumQubits(MixerInput(bitstring), bits, CirqModulus)) :
          MixerExtracted(CirqExtract(measurements, bits), None)

\* one pass of: while len(bitstring) < self.bits: bitstring += bitstring
PadStep ==
    /\ pc = "pad"
    /\ Len(buf) < bits
    /\ buf' = Doubled(buf)
    /\ iters' = iters + 1
    /\ UNCHANGED <<args, pc, idx, bitstring, sample, stdout, stderr, exitCode,
                   sourceCalls, samplerCalls, lastCall, run, firstResult>>

\* a mixer stage from the end of its padding loop to its return
MixerReturn ==
    /\ pc = "pad"
    /\ ~(Len(buf) < bits)
    /\ LET out == FinalTrim(buf, bits)
       IN  IF out = <<>>
           THEN \* int('', 2) in the argument of the last log() raises ValueError
                /\ stdout' = Logged(stdout, <<"stage_output">>)
                /\ MainExcept("ValueError", None)
                /\ UNCHANGED <<bitstring, idx>>
           ELSE /\ stdout' = Logged(stdout, <<"stage_output", "log">>)
                /\ bitstring' = Some(out)
                /\ idx' = idx + 1
                /\ pc' = "exec"
                /\ UNCHANGED <<stderr, exitCode>>
    /\ buf' = <<>>
    /\ iters' = 0
    /\ sample' = None
    /\ UNCHANGED <<args, sourceCalls, samplerCalls, lastCall, run, firstResult>>

\* generate() returns and main() prints the result; the process ends with code 0
Finish ==
    /\ pc = "exec"
    /\ idx > Len(cascade)
    /\ stdout' = Logged(stdout, <<"final_banner">>) \o <<"Binary", "Hex", "Dec">>
    /\ exitCode' = Some(0)
    /\ pc' = "done"
    /\ firstResult' = IF run = 1 THEN bitstring ELSE firstResult
    /\ UNCHANGED <<args, idx, bitstring, buf, iters, sample, stderr,
                   sourceCalls, samplerCalls, lastCall, run>>

\* the program is invoked a second time with the same arguments and a seed
Rerun ==
    /\ pc = "done"
    /\ run = 1
    /\ seed # None
    /\ pc' = "main"
    /\ idx' = 0
    /\ bitstring' = None
    /\ stdout' = <<>>
    /\ exitCode' = None
    /\ sourceCalls' = 0
    /\ samplerCalls' = 0
    /\ lastCall' = None
    /\ run' = 2
    /\ UNCHANGED <<args, buf, iters, sample, stderr, firstResult>>

Next ==
    \/ Start
    \/ Validate
    \/ OpensslSeeded
    \/ OpensslUrandom
    \/ OpensslUrandomFails
    \/ QiskitFails
    \/ QiskitSeeded
    \/ QiskitUnseeded
    \/ CirqFails
    \/ CirqRuns
    \/ PadStep
    \/ MixerReturn
    \/ Finish
    \/ Rerun

Spec == Init /\ [][Next]_vars

-----------------------------------------------------------------------------
(* Properties *)

Mixers == {"qiskit", "cirq"}

\* C1: with bits > 0, whatever generate() holds in bitstring (the value a stage
\* returned, or the all-zero input of a first mixer) has exactly bits digits, in
\* every run, seeded or not, for every sampler result; so has the value returned.
C1_StageOutputLength ==
    (bits > 0 /\ bitstring # None) => Len(bitstring[1]) = bits

\* a run of three digits through openssl and a mixer that padded has finished
C1_Witness ==
    /\ pc = "done" /\ bits = MaxBits /\ Len(cascade) = 2
    /\ cascade[1] = "openssl" /\ cascade[2] \in Mixers
    /\ Len(bitstring[1]) = MaxBits

\* C2: a cascade with a name that is no valid stage makes generate() fail before
\* any stage runs (no openssl_stage call, no simulator call), wherever the name
\* stands, and the one error message names an invalid name of the cascade.
C2_InvalidCascadeFailsFast ==
    (\E i \in 1..Len(cascade) : cascade[i] \notin ValidStages) =>
        /\ sourceCalls = 0
        /\ samplerCalls = 0
        /\ bitstring = None
        /\ pc \in {"main", "validate", "failed"}
        /\ pc = "failed" =>
              /\ exitCode = Some(1)
              /\ Len(stderr) = 1
              /\ stderr[1].error = "InvalidStage"
              /\ stderr[1].value # None
              /\ stderr[1].value[1] \notin ValidStages
              /\ \E i \in 1..Len(cascade) : cascade[i] = stderr[1].value[1]

\* the invalid name stands behind a valid one, and the run has failed
C2_Witness ==
    /\ pc = "failed"
    /\ Len(cascade) = 2
    /\ cascade[1] = "openssl"
    /\ cascade[2] = "bogus"
    /\ bits > 0

\* C3: with a seed every mixer stage, qiskit and cirq alike, runs its simulator in
\* the seeded mode, so that a second run with the same bits, seed and cascade
\* returns the same final bit string as the first.
C3_SeededSamplersDeterministic ==
    /\ (seed # None /\ lastCall # None) => lastCall[1].seeded
    /\ (seed # None /\ run = 2 /\ pc = "done") => bitstring = firstResult

\* a seeded second run through cirq has ended with another result than the first
C3_Witness ==
    /\ seed # None /\ run = 2 /\ pc = "done"
    /\ cascade = <<"cirq">>
    /\ bitstring # firstResult

ResultLines == {"Binary", "Hex", "Dec"}

\* C4: a bit count <= 0 is rejected before any stage runs: no stage is called,
\* the process does not end with code 0, no Binary/Hex/Dec line is printed, and
\* no stage returns a non-empty bit string.
C4_NonPositiveBitsRejected ==
    bits <= 0 =>
        /\ sourceCalls = 0
        /\ samplerCalls = 0
        /\ exitCode # Some(0)
        /\ \A i \in 1..Len(stdout) : stdout[i] \notin ResultLines
        /\ bitstring # None => bitstring[1] = <<>>

\* bits = -8 with a seed and the cascade openssl: a result of 240 digits is printed
C4_Witness ==
    /\ bits = 0 - 8 /\ seed # None /\ cascade = <<"openssl">>
    /\ pc = "done" /\ exitCode = Some(0)
    /\ Len(bitstring[1]) = 240
    /\ \E i \in 1..Len(stdout) : stdout[i] = "Binary"

\* the stages of the cascade up to position k that are of one of the kinds
StagesUpTo(k, kinds) == {i \in 1..k : cascade[i] \in kinds}

\* how many lines of the kind standard output holds
LinesOf(kind) == Cardinality({i \in 1..Len(stdout) : stdout[i] = kind})

\* what the claim and its amendment share: the failed call is the last one (it is
\* not retried, no later stage runs), one message is printed, the code is 1, and
\* no Binary/Hex/Dec line is printed
SamplerFailureAborts ==
    LET k == lastCall[1].position
    IN  /\ pc = "failed"
        /\ idx = k
        /\ samplerCalls = Cardinality(StagesUpTo(k, Mixers))
        /\ sourceCalls = Cardinality(StagesUpTo(k - 1, {"openssl"}))
        /\ Len(stderr) = 1
        /\ stderr[1].error = "SamplerError"
        /\ exitCode = Some(1)
        /\ \A i \in 1..Len(stdout) : stdout[i] \notin ResultLines

\* C5 as claimed: when the simulator call of the stage at position k fails, the
\* run aborts as above and no stage output has been printed, verbose or not.
C5_NoStageOutputOnSamplerFailure ==
    (lastCall # None /\ lastCall[1].failed) =>
        /\ SamplerFailureAborts
        /\ LinesOf("stage_output") = 0

\* C5 as amended: the run aborts as above; without the verbose flag nothing at
\* all has been printed on standard output, with it the output lines of the k-1
\* stages before position k have been printed, and no other stage's.
C5_SamplerFailureAborts ==
    (lastCall # None /\ lastCall[1].failed) =>
        /\ SamplerFailureAborts
        /\ ~verbose => stdout = <<>>
        /\ verbose => LinesOf("stage_output") = lastCall[1].position - 1

\* the simulator call of the second stage has failed in a verbose run
C5_Witness ==
    /\ lastCall # None /\ lastCall[1].failed
    /\ lastCall[1].position = 2
    /\ verbose
    /\ bits > 0
    /\ LinesOf("stage_output") = 1

\* C6: with bits > 0, the input of a mixer stage that is not first is the bit
\* string the stage before it returned; a first mixer gets bits zeros, for which
\* the qubit count is 1 and no qubit is marked; only a first stage gets the zeros.
C6_MixerInput ==
    [][(samplerCalls' = samplerCalls + 1 /\ bits > 0) =>
          /\ idx = 1 =>
                /\ bitstring = None
                /\ lastCall'[1].input = [i \in 1..bits |-> 0]
                /\ lastCall'[1].qubits = 1
                /\ lastCall'[1].marked = {}
          /\ idx > 1 =>
                /\ bitstring # None
                /\ lastCall'[1].input = bitstring[1]]_vars

\* a mixer in second place was handed a bit string that is not all zeros
C6_Witness ==
    /\ lastCall # None
    /\ lastCall[1].position = 2
    /\ bits = MaxBits
    /\ \E i \in 1..MaxBits : lastCall[1].input[i] = 1
    /\ pc = "pad"

\* C7: in both mixers, with bits > 0, the padding loop ends: it starts from a
\* non-empty string, every pass at least doubles the string, so after n passes
\* the string has at least 2^n digits while a pass is only made below bits
\* digits; the loop is never stuck, and the stage then returns exactly bits digits.
C7_PaddingTerminates ==
    /\ []((pc = "pad" /\ bits > 0) =>
             /\ Len(buf) >= 1
             /\ 2 ^ iters <= Len(buf)
             /\ iters > 0 => Len(buf) < 2 * bits
             /\ ENABLED (PadStep \/ MixerReturn))
    /\ [][(pc = "pad" /\ pc' = "pad" /\ bits > 0) =>
             (iters' = iters + 1 /\ Len(buf') >= 2 * Len(buf))]_vars
    /\ [][(pc = "pad" /\ pc' # "pad" /\ bits > 0) =>
             (pc' = "exec" /\ Len(bitstring'[1]) = bits)]_vars

\* the loop has run twice and overshot the bit count
C7_Witness ==
    /\ pc = "pad"
    /\ iters = 2
    /\ bits > 0
    /\ Len(buf) > bits

\* the place of entry i of a counts map by descending frequency, equal
\* frequencies in the map's order
CountRank(counts, i) ==
    1 + Cardinality({j \in 1..Len(counts) :
                        \/ counts[j].count > counts[i].count
                        \/ counts[j].count = counts[i].count /\ j < i})

\* the outcome in place r
RankedOutcome(counts, r) ==
    counts[CHOOSE i \in 1..Len(counts) : CountRank(counts, i) = r].outcome

\* how many outcomes of width q the concatenation C takes for b digits
CutOff(counts, q, b) ==
    LET need == (b + q - 1) \div q
    IN  IF need <= Len(counts) THEN need ELSE Len(counts)

\* digit j of the concatenation C
ConcatDigit(counts, q, j) ==
    RankedOutcome(counts, ((j - 1) \div q) + 1)[((j - 1) % q) + 1]

\* the first b digits of C when C is long enough, else C repeated
ExpectedQiskitOutput(counts, b) ==
    LET q == Len(counts[1].outcome)
        n == q * CutOff(counts, q, b)
    IN  [j \in 1..b |-> ConcatDigit(counts, q, ((j - 1) % n) + 1)]

\* C8: with bits > 0, what qiskit_stage returns for a counts map is the first
\* bits digits of C, or C repeated when C is shorter, where C concatenates the
\* outcomes by descending frequency (ties in the map's order) up to the first
\* one that brings the length to bits; later outcomes do not matter.
C8_QiskitOutput ==
    [][(pc = "pad" /\ pc' = "exec" /\ sample # None /\ bits > 0) =>
          bitstring'[1] = ExpectedQiskitOutput(sample[1], bits)]_vars

\* two outcomes in ascending order of frequency, too short together: padded
C8_Witness ==
    /\ pc = "pad"
    /\ sample # None
    /\ Len(sample[1]) = 2
    /\ sample[1][1].count < sample[1][2].count
    /\ iters = 1
    /\ bits = MaxBits

\* the first n digits of s as a binary numeral, mod m
RECURSIVE BinaryValueMod(_, _, _)
BinaryValueMod(s, n, m) ==
    IF n = 0 THEN 0 ELSE (2 * BinaryValueMod(s, n - 1, m) + s[n]) % m

\* C9: with bits > 0, qiskit_stage asks for max(1, min(bits, (v mod 10) + 1))
\* qubits and cirq_stage for max(1, min(bits, (v mod 15) + 1)), v the input read
\* as a binary numeral; so 1 <= qubits <= bits, qubits <= 10 resp. 15, v = 0
\* gives 1, and the qubits marked are the ones among the first qubits digits.
C9_QubitCount ==
    (bits > 0 /\ lastCall # None) =>
        LET c == lastCall[1]
            m == IF c.stage = "qiskit" THEN 10 ELSE 15
            r == BinaryValueMod(c.input, Len(c.input), m)
            low == IF bits < r + 1 THEN bits ELSE r + 1
        IN  /\ c.qubits = (IF low < 1 THEN 1 ELSE low)
            /\ 1 <= c.qubits /\ c.qubits <= bits /\ c.qubits <= m
            /\ (\A i \in 1..Len(c.input) : c.input[i] = 0) => c.qubits = 1
            /\ Len(c.input) >= c.qubits
            /\ c.marked = {i \in 1..c.qubits : c.input[i] = 1}

\* cirq_stage asked for 15 qubits: v mod 15 = 14 with more than 15 bits
C9_Witness ==
    /\ lastCall # None
    /\ lastCall[1].stage = "cirq"
    /\ lastCall[1].qubits = 15
    /\ bits > 15

\* the byte block after k rounds of hash chaining
RECURSIVE ChainBlock(_, _)
ChainBlock(sd, k) ==
    IF k = 0 THEN Sha256(DecimalBytes(sd))
    ELSE LET prev == ChainBlock(sd, k - 1) IN prev \o Sha256(prev)

\* ceil(b / 8)
CeilBytes(b) == IF b % 8 = 0 THEN b \div 8 ELSE (b \div 8) + 1

\* the rounds made: the first k whose block has ceil(b / 8) bytes
ChainRounds(b) ==
    CHOOSE k \in 0..CeilBytes(b) :
        /\ DigestSize * (k + 1) >= CeilBytes(b)
        /\ k > 0 => DigestSize * k < CeilBytes(b)

\* the first b digits of the block after those rounds
ExpectedSeededBits(sd, b) ==
    LET block == ChainBlock(sd, ChainRounds(b))
    IN  [j \in 1..b |-> (block[((j - 1) \div 8) + 1] \div (2 ^ (7 - ((j - 1) % 8)))) % 2]

\* C10: with a seed and bits > 0, openssl_stage returns the first bits digits
\* (eight per byte, most significant first) of the block B0 = H(str(seed)),
\* B(k+1) = Bk ++ H(Bk), chained while shorter than ceil(bits / 8) bytes; and a
\* second run with the same bits and seed returns the same digits.
C10_SeededHashChain ==
    /\ (seed # None /\ bits > 0 /\ pc = "exec" /\ idx > 1 /\ cascade[idx - 1] = "openssl") =>
          bitstring[1] = ExpectedSeededBits(seed[1], bits)
    /\ (seed # None /\ bits > 0 /\ run = 2 /\ pc = "done"
            /\ cascade[Len(cascade)] = "openssl") =>
          bitstring = firstResult

\* a seeded second run of openssl alone that needed three digests
C10_Witness ==
    /\ seed # None
    /\ bits > 16 * DigestSize
    /\ run = 2
    /\ pc = "done"
    /\ cascade = <<"openssl">>
    /\ bitstring = firstResult

====
